---- MODULE Spec2Model ----
(***************************************************************************)
(* Entrepreneurship Feasibility Analysis (src/app.py): a Streamlit script  *)
(* that, on a button click, issues one search call and one generation      *)
(* call, scans the generated narrative with two regular expressions,       *)
(* builds charts and assembles a DOCX report.                              *)
(*                                                                         *)
(* Texts are sequences of one-character strings, so that the regular       *)
(* expressions are modelled character by character.  Strings built with    *)
(* f-strings or "+" are tuples of their parts.                             *)
(***************************************************************************)
EXTENDS Integers, Sequences, FiniteSets, TLC

VARIABLES
    city_input, country_input, sector_select, idea_input, \* widget values held by the browser
    button_rendered,  \* the last script run reached st.button (line 156)
    city, country, selected_sector,                       \* script locals, lines 142-154
    information, all_sources,                             \* line 159
    search_results, context, sources,                     \* lines 162-164
    response,         \* the last HTTP response received (lines 68, 87)
    data,                                                 \* line 167
    text,             \* argument of extract_numerical_data when it is run on its own
    line_data, pie_data, charts,                          \* lines 178-179
    doc,                                                  \* line 188
    page,             \* elements the current script run has put on the page
    trace,            \* calls made by the current script run, in order
    clicked,          \* st.button returned True in the current script run
    prev_sector,      \* sector of the report assembled by the previous click, if any
    pc                \* position of the script / stage of a stand-alone function run

widgetVars == <<city_input, country_input, sector_select, idea_input>>
queryVars == <<city, country, selected_sector>>
fetchVars == <<search_results, context, sources>>
chartVars == <<line_data, pie_data, charts>>
reportVars == <<information, all_sources, doc>>
runVars == <<button_rendered, page, trace, clicked, prev_sector>>
vars == <<widgetVars, queryVars, fetchVars, response, data, text, chartVars, reportVars,
          runVars, pc>>

---------------------------------------------------------------------------
(* Bounds of the model.                                                    *)

MaxTokens == 5      \* tokens in a narrative handed to the year/value pattern
MaxPre == 3         \* characters placed before "Label: 42%"
MaxSuf == 1         \* characters placed after "Label: 42%"
MaxSentences == 3   \* sentences in a narrative handed to the chart builder
MaxResults == 2     \* entries of the search response's organic array
MaxSectors == 2     \* entries of the sector -> narrative mapping given to create_docx
MaxSources == 3     \* entries of the source list given to create_docx

---------------------------------------------------------------------------
(* Characters and the classes the two patterns use (Python re, str mode).  *)

Digits == {"0", "1", "2", "3", "4", "5", "6", "7", "8", "9"}
Letters == {"A", "L", "a", "b", "e", "l", "m", "n", "o", "x"}
Spaces == {" ", "\n"}

IsDigit(c) == c \in Digits                        \* \d
IsWord(c) == c \in Digits \cup Letters \cup {"_"} \* \w
IsSpace(c) == c \in Spaces                        \* \s
IsDot(c) == c # "\n"                              \* . without re.DOTALL

NoMatch == [ok |-> FALSE]

RECURSIVE RunEnd(_, _, _)
\* First position at or after q whose character is not in class cls: the end
\* (exclusive) of a greedy cls+ / cls* starting at q.
RunEnd(s, q, cls) ==
    IF q <= Len(s) /\ s[q] \in cls THEN RunEnd(s, q + 1, cls) ELSE q

WordChars == Digits \cup Letters \cup {"_"}

\* \d+(?:\.\d+)? at q, greedy; 0 when s[q] is not a digit, else the exclusive end.
NumberEnd(s, q) ==
    IF q > Len(s) \/ ~IsDigit(s[q]) THEN 0
    ELSE LET e == RunEnd(s, q, Digits) IN
         IF e + 1 <= Len(s) /\ s[e] = "." /\ IsDigit(s[e + 1])
         THEN RunEnd(s, e + 1, Digits)
         ELSE e

\* The skip of a pattern compiled with re.DOTALL: line breaks are crossed too.
DotAllSkip(s, q) ==
    IF \E j \in q..Len(s) : IsDigit(s[j])
    THEN CHOOSE j \in q..Len(s) : IsDigit(s[j]) /\ \A k \in q..(j - 1) : ~IsDigit(s[k])
    ELSE 0

RECURSIVE LazySkip(_, _)
\* .*? followed by \d: the first digit at or after q that is reached without
\* crossing a line break; 0 when there is none.
LazySkip(s, q) ==
    IF q > Len(s) THEN 0
    ELSE IF IsDigit(s[q]) THEN q
    ELSE IF ~IsDot(s[q]) THEN 0
    ELSE LazySkip(s, q + 1)

\* (\d{4}).*?(\d+(?:\.\d+)?) anchored at p.
LineMatchAt(s, p) ==
    IF p + 3 > Len(s) \/ \E k \in p..(p + 3) : ~IsDigit(s[k]) THEN NoMatch
    ELSE LET q == LazySkip(s, p + 4) IN
         IF q = 0 THEN NoMatch
         ELSE [ok |-> TRUE,
               groups |-> <<SubSeq(s, p, p + 3), SubSeq(s, q, NumberEnd(s, q) - 1)>>,
               end |-> NumberEnd(s, q)]

\* \s*:\s*(\d+(?:\.\d+)?)\s*% at e: [ok, from, to, end] of the number and the match.
PieTailAt(s, e) ==
    LET c == RunEnd(s, e, Spaces) IN
    IF c > Len(s) \/ s[c] # ":" THEN NoMatch
    ELSE LET q == RunEnd(s, c + 1, Spaces)
             n == NumberEnd(s, q) IN
         IF n = 0 THEN NoMatch
         ELSE LET r == RunEnd(s, n, Spaces) IN
              IF r > Len(s) \/ s[r] # "%" THEN NoMatch
              ELSE [ok |-> TRUE, number |-> SubSeq(s, q, n - 1), end |-> r + 1]

\* The label of a pattern without the optional second word, (\w+).
PieLabelEndOneWord(s, p) == RunEnd(s, p, WordChars)

\* (\w+(?:\s+\w+)?) at p, given s[p] is a word character: the exclusive end of
\* the label.  The second word is taken whenever whitespace and a word
\* character follow the first: the pattern's tail needs ":" there otherwise.
PieLabelEnd(s, p) ==
    LET e1 == RunEnd(s, p, WordChars)
        w == RunEnd(s, e1, Spaces) IN
    IF w > e1 /\ w <= Len(s) /\ IsWord(s[w])
    THEN RunEnd(s, w, WordChars)
    ELSE e1

\* (\w+(?:\s+\w+)?)\s*:\s*(\d+(?:\.\d+)?)\s*% anchored at p.
PieMatchAt(s, p) ==
    IF p > Len(s) \/ ~IsWord(s[p]) THEN NoMatch
    ELSE LET e == PieLabelEnd(s, p)
             t == PieTailAt(s, e) IN
         IF ~t.ok THEN NoMatch
         ELSE [ok |-> TRUE, groups |-> <<SubSeq(s, p, e - 1), t.number>>, end |-> t.end]

RECURSIVE FindAllLine(_, _)
\* re.findall: leftmost match, then on from its end.
FindAllLine(s, pos) ==
    IF pos > Len(s) THEN <<>>
    ELSE LET m == LineMatchAt(s, pos) IN
         IF m.ok THEN <<m.groups>> \o FindAllLine(s, m.end)
         ELSE FindAllLine(s, pos + 1)

RECURSIVE FindAllPie(_, _)
FindAllPie(s, pos) ==
    IF pos > Len(s) THEN <<>>
    ELSE LET m == PieMatchAt(s, pos) IN
         IF m.ok THEN <<m.groups>> \o FindAllPie(s, m.end)
         ELSE FindAllPie(s, pos + 1)

\* extract_numerical_data(text) -> (line_data, pie_data)
extract_numerical_data(s) ==
    [line_data |-> FindAllLine(s, 1), pie_data |-> FindAllPie(s, 1)]

---------------------------------------------------------------------------
(* Numbers: pd.to_numeric / float of a matched decimal, as the exact       *)
(* rational <<n, k>> = n / 10^k with no trailing zero in the fraction.     *)

DigitValue(c) ==
    CASE c = "0" -> 0 [] c = "1" -> 1 [] c = "2" -> 2 [] c = "3" -> 3 [] c = "4" -> 4
      [] c = "5" -> 5 [] c = "6" -> 6 [] c = "7" -> 7 [] c = "8" -> 8 [] c = "9" -> 9

RECURSIVE DigitsToInt(_)
DigitsToInt(s) ==
    IF s = <<>> THEN 0
    ELSE 10 * DigitsToInt(SubSeq(s, 1, Len(s) - 1)) + DigitValue(s[Len(s)])

RECURSIVE Normalize(_, _)
Normalize(n, k) ==
    IF k > 0 /\ n % 10 = 0 THEN Normalize(n \div 10, k - 1) ELSE <<n, k>>

to_numeric(s) ==
    LET d == RunEnd(s, 1, Digits) IN
    IF d > Len(s) THEN <<DigitsToInt(s), 0>>
    ELSE Normalize(DigitsToInt(SubSeq(s, 1, d - 1) \o SubSeq(s, d + 1, Len(s))), Len(s) - d)

\* pd.DataFrame(line_data, columns=['Year', 'Value']) with both columns numeric.
DataFrame(rows) ==
    [i \in 1..Len(rows) |-> [Year |-> to_numeric(rows[i][1])[1], Value |-> to_numeric(rows[i][2])]]

RowOrders(n) == {f \in [1..n -> 1..n] : \A i, j \in 1..n : i # j => f[i] # f[j]}

\* The frame left in extraction order.
Unsorted(df) == {df}

\* df.sort_values('Year'): the default kind is 'quicksort', which NumPy does not
\* make stable, so rows of equal Year may come out in any order.
sort_values(df) ==
    {[i \in 1..Len(df) |-> df[f[i]]] : f \in
        {g \in RowOrders(Len(df)) :
            \A i \in 1..(Len(df) - 1) : df[g[i]].Year <= df[g[i + 1]].Year}}

Column(df, c) == [i \in 1..Len(df) |-> df[i][c]]

\* Lines 102-110: the line chart, for each order the sort may give.
LineCharts(ld) ==
    IF ld = <<>> THEN {<<>>}
    ELSE {<<[type |-> "Scatter", x |-> Column(df, "Year"), y |-> Column(df, "Value"),
             title |-> "Market Size Projection"]>> : df \in sort_values(DataFrame(ld))}

\* Lines 112-118: the pie chart.
PieCharts(pd) ==
    IF pd = <<>> THEN <<>>
    ELSE <<[type |-> "Pie", labels |-> [i \in 1..Len(pd) |-> pd[i][1]],
            values |-> [i \in 1..Len(pd) |-> to_numeric(pd[i][2])],
            title |-> "Market Share"]>>

\* The list built if line 112 were an elif: no pie chart next to a line chart.
create_charts_elif(ld, pd) ==
    {IF l # <<>> THEN l ELSE PieCharts(pd) : l \in LineCharts(ld)}

\* create_charts(line_data, pie_data): the lists of charts it may return.
create_charts(ld, pd) == {l \o PieCharts(pd) : l \in LineCharts(ld)}

---------------------------------------------------------------------------
(* The report.  A dict is the sequence of its <<key, value>> items in       *)
(* insertion order; a document is the sequence of its block elements.      *)

DictKeys(d) == {d[i][1] : i \in 1..Len(d)}

\* d[k] = v
DictSet(d, k, v) ==
    IF k \in DictKeys(d)
    THEN [i \in 1..Len(d) |-> IF d[i][1] = k THEN <<k, v>> ELSE d[i]]
    ELSE Append(d, <<k, v>>)

Heading(t, level) == [kind |-> "heading", level |-> level, text |-> t]
Paragraph(t, style) == [kind |-> "paragraph", style |-> style, text |-> t]

Disclaimer ==
    <<"\nNote: This document was generated by an AI assistant. Verify the information with official sources for more accurate and up-to-date data.">>

\* The sources with repeated links dropped, first occurrences kept.
RECURSIVE DedupSources(_)
DedupSources(srcs) ==
    IF srcs = <<>> THEN <<>>
    ELSE LET rest == DedupSources(SubSeq(srcs, 1, Len(srcs) - 1)) IN
         IF \E i \in 1..Len(rest) : rest[i] = srcs[Len(srcs)] THEN rest
         ELSE Append(rest, srcs[Len(srcs)])

\* for source in sources: the items the loop of lines 134-135 visits.
SourceItems(srcs) == srcs

RECURSIVE SectorBlocks(_)
\* Lines 129-131.
SectorBlocks(info) ==
    IF info = <<>> THEN <<>>
    ELSE <<Heading(Head(info)[1], 2), Paragraph(Head(info)[2], "Normal")>>
            \o SectorBlocks(Tail(info))

\* create_docx(city, country, information, sources)
create_docx(c, k, info, srcs) ==
    <<Heading(<<"Feasibility Analysis - ", c, ", ", k>>, 0),
      Heading(<<"Location">>, 1),
      Paragraph(<<c, ", ", k>>, "Normal")>>
    \o SectorBlocks(info)
    \o <<Heading(<<"Sources">>, 1)>>
    \o [i \in 1..Len(SourceItems(srcs)) |-> Paragraph(<<SourceItems(srcs)[i]>>, "List Bullet")]
    \o <<Paragraph(Disclaimer, "Normal")>>

---------------------------------------------------------------------------
(* Narratives handed to the extractor and the chart builder on their own.  *)

RECURSIVE Flatten(_)
Flatten(ts) == IF ts = <<>> THEN <<>> ELSE Head(ts) \o Flatten(Tail(ts))

TokenTexts(T, n) == {Flatten(ts) : ts \in UNION {[1..k -> T] : k \in 0..n}}

LineTokens == {<<"2", "0", "2", "1">>, <<"7">>, <<"x">>, <<"\n">>, <<".">>}

LabelText == <<"L", "a", "b", "e", "l", ":", " ", "4", "2", "%">>
AroundChars == {<<"a">>, <<" ">>, <<"\n">>, <<":">>, <<"4">>, <<"%">>, <<".">>}

Sentences ==
    { <<"2", "0", "2", "1", " ", "5", "\n">>,
      <<"2", "0", "2", "1", " ", "8", "\n">>,
      <<"2", "0", "2", "2", " ", "8", "\n">>,
      <<"2", "0", "2", "3", " ", "1", "0", "\n">>,
      <<"A", ":", " ", "5", "%", "\n">>,
      <<"n", "o", "\n">> }

\* A name the script has not bound, where the value would be a JSON object.
Unbound == [unbound |-> TRUE]

\* Script locals and page of a script that has not run.
NotRun ==
    /\ city_input = "" /\ country_input = "" /\ sector_select = "" /\ idea_input = ""
    /\ city = "" /\ country = "" /\ selected_sector = <<>>
    /\ information = <<>> /\ all_sources = <<>>
    /\ search_results = Unbound /\ context = <<>> /\ sources = <<>> /\ response = Unbound
    /\ data = <<>>
    /\ doc = <<>>
    /\ button_rendered = FALSE /\ page = <<>> /\ trace = <<>> /\ clicked = FALSE
    /\ prev_sector = <<>>

InitFunctions ==
    /\ NotRun
    /\ line_data = <<>> /\ pie_data = <<>> /\ charts = <<>>
    /\ pc = "input"

\* line_data, pie_data = extract_numerical_data(text)
Extract ==
    /\ pc = "input"
    /\ line_data' = extract_numerical_data(text).line_data
    /\ pie_data' = extract_numerical_data(text).pie_data
    /\ pc' = "extracted"
    /\ UNCHANGED <<widgetVars, queryVars, fetchVars, response, data, text, charts, reportVars,
                   runVars>>

\* charts = create_charts(line_data, pie_data)
CreateCharts ==
    /\ pc = "extracted"
    /\ charts' \in create_charts(line_data, pie_data)
    /\ pc' = "charted"
    /\ UNCHANGED <<widgetVars, queryVars, fetchVars, response, data, text, line_data, pie_data,
                   reportVars, runVars>>

InitLine == InitFunctions /\ text \in TokenTexts(LineTokens, MaxTokens)
NextLine == Extract
SpecLine == InitLine /\ [][NextLine]_vars

InitPie ==
    /\ InitFunctions
    /\ text \in {pre \o LabelText \o suf :
                    pre \in TokenTexts(AroundChars, MaxPre),
                    suf \in TokenTexts(AroundChars, MaxSuf)}
NextPie == Extract
SpecPie == InitPie /\ [][NextPie]_vars

InitCharts == InitFunctions /\ text \in TokenTexts(Sentences, MaxSentences)
NextCharts == Extract \/ CreateCharts
SpecCharts == InitCharts /\ [][NextCharts]_vars

SampleSectors == {<<"Tourism">>, <<"Retail Trade">>, <<"Custom idea: ", "cafe">>}
SampleTexts == {<<"t", "e", "x", "t", " ", "A">>, <<"2", "0", "2", "1", " ", "5">>}
SampleLinks == {"http://x", "http://y"}

SeqsUpTo(S, n) == UNION {[1..k -> S] : k \in 0..n}

\* The dicts with at most n entries: item sequences with pairwise distinct keys.
Dicts(K, V, n) ==
    {d \in SeqsUpTo(K \X V, n) : \A i, j \in 1..Len(d) : i # j => d[i][1] # d[j][1]}

\* doc = create_docx(city, country, information, all_sources)
AssembleDocx ==
    /\ pc = "input"
    /\ doc' = create_docx(city, country, information, all_sources)
    /\ pc' = "assembled"
    /\ UNCHANGED <<widgetVars, queryVars, fetchVars, data, text, chartVars,
                   information, all_sources, runVars, response>>

InitDocx ==
    /\ city_input = "" /\ country_input = "" /\ sector_select = "" /\ idea_input = ""
    /\ city \in {"Lima", "New York"} /\ country = "Peru" /\ selected_sector = <<>>
    /\ information \in Dicts(SampleSectors, SampleTexts, MaxSectors)
    /\ all_sources \in SeqsUpTo(SampleLinks, MaxSources)
    /\ search_results = Unbound /\ context = <<>> /\ sources = <<>> /\ response = Unbound
    /\ data = <<>> /\ text = <<>>
    /\ line_data = <<>> /\ pie_data = <<>> /\ charts = <<>>
    /\ doc = <<>>
    /\ button_rendered = FALSE /\ page = <<>> /\ trace = <<>> /\ clicked = FALSE
    /\ prev_sector = <<>>
    /\ pc = "input"
NextDocx == AssembleDocx
SpecDocx == InitDocx /\ [][NextDocx]_vars

---------------------------------------------------------------------------
(* The Streamlit script.  Every interaction reruns the script from the     *)
(* top; a run blocks at each of its two HTTP requests until the response   *)
(* arrives.                                                                *)

CustomOption == "Describe your own entrepreneurship idea"
DefaultSector == "Manufacturing Industry"      \* sectors[0], the selectbox default
SectorOptions == {DefaultSector, "Tourism", CustomOption}
Cities == {"", "Lima"}
Countries == {"", "Peru"}
Ideas == {"", "cafe"}

IdeaWarning == <<"Please describe your entrepreneurship idea.">>
InputWarning ==
    <<"Please enter a city and country, and select a sector or describe your entrepreneurship idea.">>

Warning(t) == [kind |-> "warning", text |-> t]
Exception == [kind |-> "exception"]

\* bool(s) of a string given by its parts.
Truthy(parts) == \E i \in 1..Len(parts) : parts[i] # ""

\* Lines 149-153: the custom option is selected and the text area is empty.
IdeaMissing == sector_select = CustomOption /\ idea_input = ""

\* selected_sector after lines 147-154 (after line 147 when the script stops at 153).
SelectedSector ==
    IF sector_select # CustomOption THEN <<sector_select>>
    ELSE IF idea_input = "" THEN <<CustomOption>>
    ELSE <<"Custom idea: ", idea_input>>

\* The guard without its country operand.
InputsCompleteNoCountry(c, k, s) == c # "" /\ Truthy(s)

\* Line 157: city and country and selected_sector
InputsComplete(c, k, s) == c # "" /\ k # "" /\ Truthy(s)

\* The containers of the previous run carried over instead of rebound.
KeptReport == [information |-> information, all_sources |-> all_sources]

\* Line 159: information, all_sources = {}, []
FreshReport == [information |-> <<>>, all_sources |-> <<>>]

\* Search responses: the request or its JSON decoding fails, or a JSON object
\* arrives, with or without "organic".
GoodItems == {[snippet |-> "Lima tourism grew", link |-> "http://x"],
              [snippet |-> "Peru statistics", link |-> "http://y"]}
BadItems == {[snippet |-> "no link"], [link |-> "http://z"]}
Failed == [ok |-> FALSE]
SearchResponses ==
    {Failed, [ok |-> TRUE, json |-> [searchParameters |-> "q"]]}
    \cup {[ok |-> TRUE, json |-> [organic |-> items]] :
            items \in SeqsUpTo(GoodItems \cup BadItems, MaxResults)}

\* search_results["organic"]: a KeyError when the key is absent.
OrganicStrict(json) ==
    IF "organic" \in DOMAIN json THEN [ok |-> TRUE, items |-> json.organic] ELSE [ok |-> FALSE]

\* search_results.get("organic", [])
Organic(json) ==
    [ok |-> TRUE, items |-> IF "organic" \in DOMAIN json THEN json.organic ELSE <<>>]

RECURSIVE Join(_, _)
\* sep.join(parts)
Join(sep, parts) ==
    IF parts = <<>> THEN <<>>
    ELSE IF Len(parts) = 1 THEN parts
    ELSE <<Head(parts), sep>> \o Join(sep, Tail(parts))

RECURSIVE Strip(_)
\* str.strip()
Strip(s) ==
    IF s = <<>> THEN s
    ELSE IF IsSpace(s[1]) THEN Strip(Tail(s))
    ELSE IF IsSpace(s[Len(s)]) THEN Strip(SubSeq(s, 1, Len(s) - 1))
    ELSE s

NarrativeCharts ==
    <<" ", "2", "0", "2", "1", " ", "5", "\n", "A", ":", " ", "5", "%", "\n">>
NarrativePlain == <<"n", "o">>

\* Generation responses: the request fails, or a JSON object arrives, with or
\* without output.choices[0].text.
GenerationResponses ==
    {Failed,
     [ok |-> TRUE, json |-> [error |-> "rate limit"]],
     [ok |-> TRUE, json |-> [output |-> [choices |-> <<>>]]],
     [ok |-> TRUE, json |-> [output |-> [choices |-> <<[finish_reason |-> "length"]>>]]]}
    \cup {[ok |-> TRUE, json |-> [output |-> [choices |-> <<[text |-> t]>>]]] :
            t \in {NarrativeCharts, NarrativePlain}}

HasText(json) ==
    /\ "output" \in DOMAIN json
    /\ "choices" \in DOMAIN json.output
    /\ Len(json.output.choices) >= 1
    /\ "text" \in DOMAIN json.output.choices[1]

\* The text read with defaults: an empty narrative when a field is absent.
ResponseTextOrEmpty(r) ==
    IF r.ok /\ HasText(r.json)
    THEN [ok |-> TRUE, text |-> Strip(r.json.output.choices[1].text)]
    ELSE [ok |-> TRUE, text |-> <<>>]

\* Lines 87-88: response.json()['output']['choices'][0]['text'].strip(), or the
\* exception raised on the way.
ResponseText(r) ==
    IF r.ok /\ HasText(r.json)
    THEN [ok |-> TRUE, text |-> Strip(r.json.output.choices[1].text)]
    ELSE [ok |-> FALSE]

\* Names a script run has not bound yet.
UnboundLocals ==
    /\ search_results' = Unbound /\ context' = <<>> /\ sources' = <<>> /\ response' = Unbound
    /\ data' = <<>>
    /\ line_data' = <<>> /\ pie_data' = <<>> /\ charts' = <<>>
    /\ doc' = <<>>

\* Lines 141-154, common to every script run.
ScriptStart(isClick) ==
    /\ city' = city_input
    /\ country' = country_input
    /\ selected_sector' = SelectedSector
    /\ clicked' = isClick
    /\ prev_sector' = IF doc # <<>> THEN selected_sector ELSE prev_sector
    /\ UnboundLocals
    /\ UNCHANGED <<widgetVars, text>>

\* Lines 151-153: st.warning, st.stop before the button is reached.
StopForIdea ==
    /\ page' = <<Warning(IdeaWarning)>>
    /\ button_rendered' = FALSE
    /\ trace' = <<>>
    /\ pc' = "idle"
    /\ information' = <<>> /\ all_sources' = <<>>

\* The user edits a widget; the browser holds the new value.
SetCity(v) ==
    /\ pc = "idle" /\ v # city_input
    /\ city_input' = v
    /\ UNCHANGED <<country_input, sector_select, idea_input, queryVars, fetchVars, response,
                   data, text, chartVars, reportVars, runVars, pc>>

SetCountry(v) ==
    /\ pc = "idle" /\ v # country_input
    /\ country_input' = v
    /\ UNCHANGED <<city_input, sector_select, idea_input, queryVars, fetchVars, response,
                   data, text, chartVars, reportVars, runVars, pc>>

SelectSector(v) ==
    /\ pc = "idle" /\ v # sector_select
    /\ sector_select' = v
    /\ UNCHANGED <<city_input, country_input, idea_input, queryVars, fetchVars, response,
                   data, text, chartVars, reportVars, runVars, pc>>

\* The text area exists only while the custom option is selected (line 150).
SetIdea(v) ==
    /\ pc = "idle" /\ v # idea_input /\ sector_select = CustomOption
    /\ idea_input' = v
    /\ UNCHANGED <<city_input, country_input, sector_select, queryVars, fetchVars, response,
                   data, text, chartVars, reportVars, runVars, pc>>

\* A script run in which st.button returns False (lines 141-156).
Rerun ==
    /\ pc = "idle"
    /\ ScriptStart(FALSE)
    /\ IF IdeaMissing THEN StopForIdea
       ELSE /\ page' = <<>>
            /\ button_rendered' = TRUE
            /\ trace' = <<>>
            /\ pc' = "idle"
            /\ information' = <<>> /\ all_sources' = <<>>

\* A script run in which st.button returns True: lines 141-162, up to the
\* search request being sent, or to the warning of line 199.
Click ==
    /\ pc = "idle"
    /\ button_rendered
    /\ ScriptStart(TRUE)
    /\ IF IdeaMissing THEN StopForIdea
       ELSE IF InputsComplete(city_input, country_input, SelectedSector)
       THEN /\ information' = FreshReport.information
            /\ all_sources' = FreshReport.all_sources
            /\ page' = <<>>
            /\ button_rendered' = TRUE
            /\ trace' = <<"call search_information">>
            /\ pc' = "search"
       ELSE /\ page' = <<Warning(InputWarning)>>
            /\ button_rendered' = TRUE
            /\ trace' = <<>>
            /\ pc' = "idle"
            /\ information' = <<>> /\ all_sources' = <<>>

\* The script ends with an unhandled exception.
Raise(events) ==
    /\ page' = Append(page, Exception)
    /\ trace' = trace \o events \o <<"raise">>
    /\ pc' = "idle"

\* The search response arrives: lines 68-69 and 162-167, up to the generation
\* request being sent.
SearchReturns(r) ==
    /\ pc = "search"
    /\ response' = r
    /\ IF ~r.ok
       THEN /\ Raise(<<>>)
            /\ UNCHANGED <<search_results, context, sources>>
       ELSE /\ search_results' = r.json
            /\ LET org == Organic(r.json) IN
               IF ~org.ok
               THEN Raise(<<"return search_information">>) /\ UNCHANGED <<context, sources>>
               ELSE IF \E i \in 1..Len(org.items) : "snippet" \notin DOMAIN org.items[i]
               THEN Raise(<<"return search_information">>) /\ UNCHANGED <<context, sources>>
               ELSE /\ context' = Join("\n", [i \in 1..Len(org.items) |-> org.items[i].snippet])
                    /\ IF \E i \in 1..Len(org.items) : "link" \notin DOMAIN org.items[i]
                       THEN Raise(<<"return search_information">>) /\ UNCHANGED sources
                       ELSE /\ sources' = [i \in 1..Len(org.items) |-> org.items[i].link]
                            /\ trace' = trace \o <<"return search_information",
                                                   "call generate_feasibility_analysis">>
                            /\ pc' = "generate"
                            /\ UNCHANGED page
    /\ UNCHANGED <<widgetVars, queryVars, data, text, chartVars, reportVars,
                   button_rendered, clicked, prev_sector>>

\* The generation response arrives: lines 87-88 and 169-197.
GenerationReturns(r) ==
    /\ pc = "generate"
    /\ response' = r
    /\ LET t == ResponseText(r) IN
       IF ~t.ok
       THEN /\ Raise(<<>>)
            /\ UNCHANGED <<data, chartVars, reportVars>>
       ELSE /\ data' = t.text
            /\ information' = DictSet(information, selected_sector, t.text)
            /\ all_sources' = all_sources \o sources
            /\ line_data' = extract_numerical_data(t.text).line_data
            /\ pie_data' = extract_numerical_data(t.text).pie_data
            /\ charts' \in create_charts(line_data', pie_data')
            /\ doc' = create_docx(city, country, information', all_sources')
            /\ page' = page
                  \o <<[kind |-> "subheader",
                        text |-> <<"Feasibility analysis for entrepreneurship in the sector: ",
                                   selected_sector>>],
                       [kind |-> "markdown", text |-> <<"**Location: ", city, ", ", country, "**">>],
                       [kind |-> "write", text |-> t.text]>>
                  \o [i \in 1..Len(charts') |-> [kind |-> "plotly_chart", chart |-> charts'[i]]]
                  \o <<[kind |-> "write", text |-> <<"---">>],
                       [kind |-> "download_button", data |-> doc']>>
            /\ trace' = trace \o <<"return generate_feasibility_analysis",
                                   "extract_numerical_data", "create_charts", "create_docx">>
            /\ pc' = "idle"
    /\ UNCHANGED <<widgetVars, queryVars, search_results, context, sources, text,
                   button_rendered, clicked, prev_sector>>

\* The state after the first script run of a session: empty text inputs, the
\* first sector selected.
Init ==
    /\ city_input = "" /\ country_input = "" /\ sector_select = DefaultSector /\ idea_input = ""
    /\ city = "" /\ country = "" /\ selected_sector = <<DefaultSector>>
    /\ information = <<>> /\ all_sources = <<>>
    /\ search_results = Unbound /\ context = <<>> /\ sources = <<>> /\ response = Unbound
    /\ data = <<>> /\ text = <<>>
    /\ line_data = <<>> /\ pie_data = <<>> /\ charts = <<>>
    /\ doc = <<>>
    /\ button_rendered = TRUE /\ page = <<>> /\ trace = <<>> /\ clicked = FALSE
    /\ prev_sector = <<>>
    /\ pc = "idle"

Next ==
    \/ \E v \in Cities : SetCity(v)
    \/ \E v \in Countries : SetCountry(v)
    \/ \E v \in SectorOptions : SelectSector(v)
    \/ \E v \in Ideas : SetIdea(v)
    \/ Rerun
    \/ Click
    \/ \E r \in SearchResponses : SearchReturns(r)
    \/ \E r \in GenerationResponses : GenerationReturns(r)

Spec == Init /\ [][Next]_vars

---------------------------------------------------------------------------
(* Properties of extract_numerical_data.                                   *)

FourDigitsAt(s, i) == i + 3 <= Len(s) /\ \A k \in i..(i + 3) : IsDigit(s[k])

\* A run of 4 digits with a digit somewhere after it.
YearThenNumber(s) ==
    \E i \in 1..Len(s) : FourDigitsAt(s, i) /\ \E j \in (i + 4)..Len(s) : IsDigit(s[j])

\* A run of 4 digits with a digit after it and no line break in between.
YearThenNumberOnLine(s) ==
    \E i \in 1..Len(s) : FourDigitsAt(s, i) /\
        \E j \in (i + 4)..Len(s) : IsDigit(s[j]) /\ \A k \in (i + 4)..(j - 1) : s[k] # "\n"

IsDecimal(v) ==
    /\ v # <<>>
    /\ IsDigit(v[1]) /\ IsDigit(v[Len(v)])
    /\ \A k \in 1..Len(v) : IsDigit(v[k]) \/ v[k] = "."
    /\ Cardinality({k \in 1..Len(v) : v[k] = "."}) <= 1

OccursAt(s, w, i) == i >= 1 /\ i + Len(w) - 1 <= Len(s) /\ SubSeq(s, i, i + Len(w) - 1) = w

RECURSIVE InTextOrder(_, _, _)
\* The pairs occur in s from position `from` on, one after the other without
\* overlap: each year, then (later on the same line) its value.
InTextOrder(s, pairs, from) ==
    \/ pairs = <<>>
    \/ \E p \in from..Len(s) : \E q \in (p + 4)..Len(s) :
          /\ OccursAt(s, Head(pairs)[1], p)
          /\ OccursAt(s, Head(pairs)[2], q)
          /\ \A k \in (p + 4)..(q - 1) : s[k] # "\n" /\ ~IsDigit(s[k])
          /\ InTextOrder(s, Tail(pairs), q + Len(Head(pairs)[2]))

\* C6 (as stated): every text in which some run of 4 digits is followed anywhere
\* later by a number yields a non-empty NumericSeries.
C6_AnyDistance ==
    pc = "extracted" => (YearThenNumber(text) => line_data # <<>>)

\* C6 (amended): the NumericSeries is non-empty exactly when some run of 4
\* digits is followed later ON THE SAME LINE by a digit; every pair is a 4-digit
\* year with a decimal number, and the pairs occur in the text in the order of
\* the series, without overlap.
C6_SameLine ==
    pc = "extracted" =>
        /\ line_data # <<>> <=> YearThenNumberOnLine(text)
        /\ \A k \in 1..Len(line_data) :
              /\ Len(line_data[k][1]) = 4 /\ FourDigitsAt(line_data[k][1], 1)
              /\ IsDecimal(line_data[k][2])
        /\ InTextOrder(text, line_data, 1)

\* Two matches on one line, and a third year cut off from its number by a line break.
C6_Witness ==
    /\ pc = "extracted"
    /\ Len(line_data) = 2
    /\ \E i \in 1..Len(text) : text[i] = "\n"

EndsWith(s, w) == Len(s) >= Len(w) /\ SubSeq(s, Len(s) - Len(w) + 1, Len(s)) = w

LabelWord == SubSeq(LabelText, 1, 5)

\* The text before the substring ends in a word character, or in whitespace that
\* follows a word character: the pattern's label then starts before "Label".
Absorbed(pre) ==
    \E e \in 1..Len(pre) : IsWord(pre[e]) /\ \A j \in (e + 1)..Len(pre) : IsSpace(pre[j])

\* C3 (as stated): a text containing "Label: 42%" gives a ShareBreakdown entry
\* with label exactly "Label" and percent 42, whatever precedes or follows.
C3_ExactLabel ==
    pc = "extracted" =>
        \A i \in 1..Len(text) : OccursAt(text, LabelText, i) =>
            \E k \in 1..Len(pie_data) :
                pie_data[k][1] = LabelWord /\ to_numeric(pie_data[k][2]) = <<42, 0>>

\* C3 (amended): a text containing "Label: 42%" gives a ShareBreakdown entry with
\* percent 42 whose label ends in "Label"; the label is exactly "Label" if and
\* only if the substring is not preceded by a word character or by whitespace
\* that follows a word character.
C3_LabelEntry ==
    pc = "extracted" =>
        \A i \in 1..Len(text) : OccursAt(text, LabelText, i) =>
            \E k \in 1..Len(pie_data) :
                /\ to_numeric(pie_data[k][2]) = <<42, 0>>
                /\ EndsWith(pie_data[k][1], LabelWord)
                /\ pie_data[k][1] = LabelWord <=> ~Absorbed(SubSeq(text, 1, i - 1))

\* "Label: 42%" with text before and after it, and the entry {Label, 42}.
C3_Witness ==
    /\ pc = "extracted"
    /\ \E i \in 2..(Len(text) - Len(LabelText)) : OccursAt(text, LabelText, i)
    /\ \E k \in 1..Len(pie_data) : pie_data[k] = <<LabelWord, <<"4", "2">>>>

---------------------------------------------------------------------------
(* Properties of create_charts.                                            *)

\* The points of the line chart, as rows.
ChartRows(fig) == [i \in 1..Len(fig.x) |-> [Year |-> fig.x[i], Value |-> fig.y[i]]]

HasChart(t) == \E i \in 1..Len(charts) : charts[i].type = t

\* C4: rows of equal year keep their original appearance order in the line chart.
C4_StableTies ==
    (pc = "charted" /\ line_data # <<>>) =>
        LET df == DataFrame(line_data)
            rows == ChartRows(charts[1]) IN
        \E f \in RowOrders(Len(df)) :
            /\ rows = [i \in 1..Len(df) |-> df[f[i]]]
            /\ \A i, j \in 1..Len(df) : (i < j /\ rows[i].Year = rows[j].Year) => f[i] < f[j]

\* C5: the points of the line chart are ordered by year ascending and are a
\* permutation of the extracted pairs.
C5_SortedPermutation ==
    (pc = "charted" /\ line_data # <<>>) =>
        LET df == DataFrame(line_data)
            rows == ChartRows(charts[1]) IN
        /\ charts[1].type = "Scatter"
        /\ Len(charts[1].x) = Len(line_data) /\ Len(charts[1].y) = Len(line_data)
        /\ \A i \in 1..(Len(rows) - 1) : rows[i].Year <= rows[i + 1].Year
        /\ \E f \in RowOrders(Len(df)) : rows = [i \in 1..Len(df) |-> df[f[i]]]

\* The pairs [(2023,10),(2021,5),(2022,8)] rendered as 2021, 2022, 2023.
C5_Witness ==
    /\ pc = "charted"
    /\ Len(line_data) = 3
    /\ DataFrame(line_data) = <<[Year |-> 2023, Value |-> <<10, 0>>],
                                [Year |-> 2021, Value |-> <<5, 0>>],
                                [Year |-> 2022, Value |-> <<8, 0>>]>>
    /\ charts[1].x = <<2021, 2022, 2023>>
    /\ charts[1].y = <<<<5, 0>>, <<8, 0>>, <<10, 0>>>>

\* C7: a line chart iff the NumericSeries is non-empty, a pie chart iff the
\* ShareBreakdown is non-empty, the line chart first, at most two charts; a
\* narrative without a year/value match gives no series and no line chart.
C7_ChartsIff ==
    pc = "charted" =>
        /\ Len(charts) <= 2
        /\ HasChart("Scatter") <=> line_data # <<>>
        /\ HasChart("Pie") <=> pie_data # <<>>
        /\ \A i, j \in 1..Len(charts) : i < j => (charts[i].type = "Scatter" /\ charts[j].type = "Pie")
        /\ ~YearThenNumberOnLine(text) => (line_data = <<>> /\ ~HasChart("Scatter"))

\* Both charts produced.
C7_Witness == pc = "charted" /\ Len(charts) = 2 /\ line_data # <<>> /\ pie_data # <<>>

---------------------------------------------------------------------------
(* Properties of create_docx.                                              *)

IsSectorHeading(e) == e.kind = "heading" /\ e.level = 2
IsBullet(e) == e.kind = "paragraph" /\ e.style = "List Bullet"

Texts(es) == [i \in 1..Len(es) |-> es[i].text]

\* Position of the "Sources" heading; 0 when there is none.
SourcesAt(d) ==
    IF \E i \in 1..Len(d) : d[i] = Heading(<<"Sources">>, 1)
    THEN CHOOSE i \in 1..Len(d) : d[i] = Heading(<<"Sources">>, 1)
    ELSE 0

\* The <<heading text, body text>> of every level-2 heading, in document order;
\* the body is the element right after the heading.
SectorSections(d) ==
    LET at == SelectSeq([i \in 1..Len(d) |-> i], LAMBDA i : IsSectorHeading(d[i])) IN
    [k \in 1..Len(at) |-> <<d[at[k]].text, d[at[k] + 1].text>>]

\* C8: one heading+body pair per sector entry; under Sources one bullet per
\* element of the source list, same order, duplicates kept; then the disclaimer.
C8_DocxStructure ==
    pc = "assembled" =>
        /\ SectorSections(doc) = information
        /\ \A i \in 1..Len(doc) : IsSectorHeading(doc[i]) =>
              (doc[i + 1].kind = "paragraph" /\ doc[i + 1].style = "Normal")
        /\ Texts(SelectSeq(doc, IsBullet)) = [i \in 1..Len(all_sources) |-> <<all_sources[i]>>]
        /\ Cardinality({i \in 1..Len(doc) : doc[i] = Heading(<<"Sources">>, 1)}) = 1
        /\ \A i \in 1..Len(doc) :
              /\ IsSectorHeading(doc[i]) => i < SourcesAt(doc)
              /\ IsBullet(doc[i]) => (SourcesAt(doc) < i /\ i < Len(doc))
        /\ doc[Len(doc)] = Paragraph(Disclaimer, "Normal")
        /\ doc[1] = Heading(<<"Feasibility Analysis - ", city, ", ", country>>, 0)

\* sectors = {"Tourism": "text A"}, sources = ["http://x", "http://x"]: one sector
\* heading and two bullets.
C8_Witness ==
    /\ pc = "assembled"
    /\ information = << <<<<"Tourism">>, <<"t", "e", "x", "t", " ", "A">>>> >>
    /\ all_sources = <<"http://x", "http://x">>
    /\ Len(SelectSeq(doc, IsSectorHeading)) = 1
    /\ Len(SelectSeq(doc, IsBullet)) = 2

---------------------------------------------------------------------------
(* Properties of the button handler.                                       *)

FullTrace ==
    <<"call search_information", "return search_information",
      "call generate_feasibility_analysis", "return generate_feasibility_analysis",
      "extract_numerical_data", "create_charts", "create_docx">>

IsPrefix(a, b) == Len(a) <= Len(b) /\ SubSeq(b, 1, Len(a)) = a

Raised == trace # <<>> /\ trace[Len(trace)] = "raise"
WithoutRaise(t) == IF t # <<>> /\ t[Len(t)] = "raise" THEN SubSeq(t, 1, Len(t) - 1) ELSE t

Count(t, e) == Cardinality({i \in 1..Len(t) : t[i] = e})

OnPage(kinds) == \E i \in 1..Len(page) : page[i].kind \in kinds

\* The current run is a click whose city, country and sector are all populated,
\* and it has ended.
PopulatedClickEnded ==
    /\ clicked /\ pc = "idle"
    /\ city # "" /\ country # "" /\ selected_sector # <<CustomOption>>

\* The search call returned a JSON object.
SearchAnswered == search_results # Unbound

\* The organic array of the search response, empty when the response has none.
ResultItems == IF "organic" \in DOMAIN search_results THEN search_results.organic ELSE <<>>

\* Every result carries a snippet and a link.
ResultsUsable ==
    /\ SearchAnswered
    /\ \A i \in 1..Len(ResultItems) : DOMAIN ResultItems[i] = {"snippet", "link"}

GenerationCalled == Count(trace, "call generate_feasibility_analysis") >= 1

\* The generation call returned a JSON object (response then holds it).
GenerationAnswered == GenerationCalled /\ pc = "idle" /\ response.ok

\* C1: a click while city, country or the custom idea is empty gives a warning,
\* no network call, no chart and no document.
C1_NoCallsWithoutInput ==
    (clicked /\ (city = "" \/ country = "" \/ selected_sector = <<CustomOption>>)) =>
        /\ pc = "idle"
        /\ trace = <<>>
        /\ response = Unbound /\ search_results = Unbound
        /\ OnPage({"warning"})
        /\ ~OnPage({"plotly_chart", "download_button", "write", "subheader"})
        /\ charts = <<>> /\ doc = <<>> /\ information = <<>> /\ all_sources = <<>>

\* A click with a city and no country: the warning of line 199.
C1_Witness ==
    /\ clicked /\ city # "" /\ country = ""
    /\ page = <<Warning(InputWarning)>>

\* C2 (as stated, here only for actions whose search call returned usable
\* results and whose generation call returned a JSON object): every populated
\* click runs search, generation, scanning, charts and document assembly.
C2_AlwaysFullSequence ==
    (PopulatedClickEnded /\ ResultsUsable /\ GenerationAnswered) => trace = FullTrace

\* C2 (amended): the steps of a click run at most once each, in the order
\* search call, search return, generation call, generation return, scanning,
\* charts, document.  A populated click issues the search call; it issues the
\* generation call (once, after the search returned) when the search results
\* are usable, in particular when the response has no organic array, which
\* gives an empty context and no sources; it runs to the document exactly when
\* the generation response also holds output.choices[0].text, and otherwise
\* ends with an unhandled exception at the step that failed.
C2_OnceInOrder ==
    /\ IsPrefix(WithoutRaise(trace), FullTrace)
    /\ PopulatedClickEnded =>
          /\ Count(trace, "call search_information") = 1
          /\ ResultsUsable <=> GenerationCalled
          /\ (SearchAnswered /\ "organic" \notin DOMAIN search_results) =>
                (context = <<>> /\ sources = <<>> /\ GenerationCalled)
          /\ trace = FullTrace <=> (GenerationAnswered /\ HasText(response.json))
          /\ trace # FullTrace => (Raised /\ OnPage({"exception"}) /\ doc = <<>>)

\* A populated click whose search response has no organic array, run to the end.
C2_Witness ==
    /\ PopulatedClickEnded
    /\ SearchAnswered /\ "organic" \notin DOMAIN search_results
    /\ trace = FullTrace
    /\ doc # <<>>

\* C9: when the generation response lacks output.choices[0].text the action
\* ends after one search call and one generation call with an unhandled
\* exception: no narrative, no scanning, no chart, no document, no download.
C9_AbortOnMissingText ==
    (clicked /\ GenerationAnswered /\ ~HasText(response.json)) =>
        /\ trace = <<"call search_information", "return search_information",
                     "call generate_feasibility_analysis", "raise">>
        /\ OnPage({"exception"})
        /\ ~OnPage({"subheader", "markdown", "write", "plotly_chart", "download_button"})
        /\ data = <<>>
        /\ line_data = <<>> /\ pie_data = <<>> /\ charts = <<>>
        /\ doc = <<>>

\* A generation response whose choices array is empty.
C9_Witness ==
    /\ clicked /\ GenerationAnswered
    /\ response.json = [output |-> [choices |-> <<>>]]
    /\ OnPage({"exception"})

\* C10: the report assembled by a click has exactly one sector section, the
\* sector and narrative of that click, and exactly the links of that click's
\* search results, in result order.
C10_ReportIsThisAction ==
    (clicked /\ pc = "idle" /\ doc # <<>>) =>
        /\ SectorSections(doc) = << <<selected_sector, data>> >>
        /\ Texts(SelectSeq(doc, IsBullet)) = [i \in 1..Len(ResultItems) |-> <<ResultItems[i].link>>]
        /\ information = << <<selected_sector, data>> >>
        /\ all_sources = sources
        /\ doc[1] = Heading(<<"Feasibility Analysis - ", city, ", ", country>>, 0)
        /\ page[Len(page)] = [kind |-> "download_button", data |-> doc]

\* A report assembled after an earlier click assembled one for another sector.
C10_Witness ==
    /\ clicked /\ pc = "idle" /\ doc # <<>>
    /\ prev_sector # <<>> /\ prev_sector # selected_sector
    /\ Len(ResultItems) = 2

====
